---- MODULE Spec2Model ----
(***************************************************************************)
(* Frame-sampling analysis pipeline of the railway monitor dashboard:      *)
(* the VideoAnalysis component (sampling timer, start/stop/reset, the      *)
(* video element's events), the useYOLOv8Detection hook (model handle,     *)
(* processFrame) and the Dashboard's record of the video's status and of   *)
(* the aggregated detections.                                              *)
(*                                                                         *)
(* React state is modelled as the component writes it (isAnalyzing,        *)
(* detections, analysisInterval, isProcessing); the handlers the browser   *)
(* can invoke are closures over the values of the last render, kept in     *)
(* `rendered`.  A click handler is followed by its render at once; state   *)
(* set from a timer callback, a promise continuation or a media event is   *)
(* rendered by the separate step Render.  The closure created by           *)
(* startAnalysis for setInterval keeps the isProcessing and detections     *)
(* values of the render it was created in (capIsProcessing,                *)
(* capDetections).                                                         *)
(*                                                                         *)
(* Fields run, pos and stale of a call and run, pos of a detection are     *)
(* history fields: the run and the playback position the frame was sampled *)
(* at, and whether a stop, reset or start happened while the call was out. *)
(*                                                                         *)
(* Spec is the analysis view on a recording of Duration seconds; SpecEven  *)
(* is the same on a recording of a whole number of sampling steps, and     *)
(* SpecDetached adds startAnalysis invoked without a video element.  The   *)
(* pure parts are run on their inputs, held in `probe`: SpecClassify       *)
(* applies getDangerLevel and getDescriptionForType (both copies) to a     *)
(* type and a confidence, SpecFrame applies processFrame's map and filter  *)
(* to an array of the model's results, and SpecSession follows the ids of  *)
(* the detections appended as calls settle and Date.now() advances.        *)
(***************************************************************************)
EXTENDS Integers, Sequences, FiniteSets, TLC

\* ---- bounds -------------------------------------------------------------
Duration == 3      \* length of the uploaded recording, seconds
MaxRuns == 2       \* startAnalysis invocations explored
MaxMounts == 2     \* times the video is selected into the analysis view
MaxDets == 1       \* results (after filtering) of a call on a frame that shows objects
MaxCalls == 2      \* inference calls issued in one explored behaviour
MaxConfidence == 100  \* confidences are 0..MaxConfidence hundredths
MaxResults == 2    \* raw results the model returns for one frame
MaxNow == 1        \* Date.now() takes the values 0..MaxNow
MaxFrames == 3     \* processFrame calls that settle in one explored session
EvenSteps == 2     \* sampling steps in the recording of whole steps
MaxArrivals == 3   \* detections that reach the Dashboard in one explored behaviour

\* ---- program constants --------------------------------------------------
SampleStep == 2    \* video_element.currentTime += 2
KeepLast == 20     \* updated.slice(-20)

VARIABLES
  mounted,            \* a VideoAnalysis instance is rendered (currentVideo # null)
  mountGen,           \* which instance (1..MaxMounts)
  isAnalyzing,        \* useState(false)
  detections,         \* useState<Detection[]>([])
  analysisInterval,   \* useState<Timeout|null>(null); 0 is null
  isProcessing,       \* hook: useState(false)
  progress,           \* useState(0), percent
  rendered,           \* values the current handlers close over
  modelState,         \* hook: modelRef / initializeModel outcome
  currentTime,        \* video element playback position
  endedEventPending,  \* an 'ended' event is queued on the element
  timers,             \* active setInterval timers with their closures
  nextTimer,          \* next timer id = number of runs started + 1
  calls,              \* processFrame calls awaiting the model
  callsIssued,        \* history: number of processFrame calls issued so far
  status,             \* uploadedVideos[video].status in the Dashboard
  videoStatusProp,    \* currentVideo.status, the prop of VideoAnalysis
  allDetections,      \* Dashboard: aggregated detections
  error,              \* hook: useState<string | null>(null)
  duration,           \* video element: length of the recording, seconds
  probe               \* the frame under the classifier (classification runs)

\* the analysis view, its hook, its video element and the Dashboard
pipeline == <<mounted, mountGen, isAnalyzing, detections, analysisInterval,
              isProcessing, progress, rendered, modelState, currentTime,
              endedEventPending, timers, nextTimer, calls, callsIssued, status,
              videoStatusProp, allDetections, error, duration>>

vars == <<pipeline, probe>>

\* what no handler of the analysis view writes
fixed == <<duration, probe>>

Min(a, b) == IF a < b THEN a ELSE b

\* updated.slice(-20)
LastN(s, n) == IF Len(s) <= n THEN s ELSE SubSeq(s, Len(s) - n + 1, Len(s))

\* video_element.ended
Ended == currentTime >= duration

\* the values a render captures
Snapshot(a, d, i, p) ==
  [isAnalyzing |-> a, detections |-> d, analysisInterval |-> i, isProcessing |-> p]

Current == Snapshot(isAnalyzing, detections, analysisInterval, isProcessing)

\* no frame is under the classifier
NoProbe == [stage |-> "off"]

ViewInit ==
  /\ mounted = TRUE
  /\ mountGen = 1
  /\ isAnalyzing = FALSE
  /\ detections = <<>>
  /\ analysisInterval = 0
  /\ isProcessing = FALSE
  /\ progress = 0
  /\ rendered = Snapshot(FALSE, <<>>, 0, FALSE)
  /\ modelState = "loading"
  /\ currentTime = 0
  /\ endedEventPending = FALSE
  /\ timers = {}
  /\ nextTimer = 1
  /\ calls = {}
  /\ callsIssued = 0
  /\ status = "ready"
  /\ videoStatusProp = "ready"
  /\ allDetections = <<>>
  /\ error = "none"

PipelineInit == ViewInit /\ duration = Duration

Init == PipelineInit /\ probe = NoProbe

\* ---- useYOLOv8Detection: model initialisation ---------------------------

\* initializeModel: the pipeline() import resolves and modelRef.current is set
InitializeModelLoaded ==
  /\ mounted
  /\ modelState = "loading"
  /\ modelState' = "loaded"
  /\ UNCHANGED <<fixed, error, callsIssued, mounted, mountGen, isAnalyzing, detections, analysisInterval,
                 isProcessing, progress, rendered, currentTime,
                 endedEventPending, timers, nextTimer,
                 calls, status, videoStatusProp, allDetections>>

\* initializeModel: the catch branch, setError(...), modelRef.current stays null
InitializeModelFailed ==
  /\ mounted
  /\ modelState = "loading"
  /\ modelState' = "failed"
  /\ error' = "init"
  /\ UNCHANGED <<fixed, callsIssued, mounted, mountGen, isAnalyzing, detections, analysisInterval,
                 isProcessing, progress, rendered, currentTime,
                 endedEventPending, timers, nextTimer,
                 calls, status, videoStatusProp, allDetections>>

\* ---- React render -------------------------------------------------------

\* the component re-renders: handlers and effects now close over the state
Render ==
  /\ mounted
  /\ rendered # Current
  /\ rendered' = Current
  /\ UNCHANGED <<fixed, error, callsIssued, mounted, mountGen, isAnalyzing, detections, analysisInterval,
                 isProcessing, progress, modelState, currentTime,
                 endedEventPending, timers, nextTimer,
                 calls, status, videoStatusProp, allDetections>>

\* ---- startAnalysis ------------------------------------------------------

\* outstanding calls at the moment of a stop, reset or start (history mark)
MarkStale(cs) == {[c EXCEPT !.stale = TRUE] : c \in cs}

\* the closure startAnalysis hands to setInterval
NewTimer(id) ==
  [id |-> id, gen |-> mountGen,
   capIsProcessing |-> rendered.isProcessing,
   capDetections |-> rendered.detections]

\* mutant: the Start Analysis button is rendered whatever the state
StartButtonShown_Always == TRUE

\* the Start Analysis button is rendered
StartButtonShown == ~rendered.isAnalyzing /\ videoStatusProp # "analyzing"

\* mutant: startAnalysis without its check of the video element
VideoRefPresent_Always == TRUE

\* videoRef.current is the <video> element of the rendered instance
VideoRefPresent == mounted

\* startAnalysis past its guard
StartBody ==
  /\ isAnalyzing' = TRUE
  /\ detections' = <<>>
  /\ status' = "analyzing"
  /\ currentTime' = 0
  /\ timers' = timers \cup {NewTimer(nextTimer)}
  /\ analysisInterval' = nextTimer
  /\ nextTimer' = nextTimer + 1
  /\ rendered' = Snapshot(TRUE, <<>>, nextTimer, isProcessing)
  /\ calls' = MarkStale(calls)
  /\ UNCHANGED <<fixed, error, callsIssued, mounted, mountGen, isProcessing, progress, modelState,
                 endedEventPending, videoStatusProp, allDetections>>

\* the function startAnalysis: if (!videoRef.current) return; ...
startAnalysisCall == IF ~VideoRefPresent THEN UNCHANGED vars ELSE StartBody

\* a click on the Start Analysis button
startAnalysis ==
  /\ mounted
  /\ StartButtonShown
  /\ nextTimer <= MaxRuns
  /\ startAnalysisCall

\* startAnalysis of an instance whose video element is gone
startAnalysisDetached ==
  /\ ~mounted
  /\ nextTimer <= MaxRuns
  /\ startAnalysisCall

\* ---- the interval callback ----------------------------------------------

\* analyzeCurrentFrame's guard, as the timer's closure evaluates it
FrameGuardPasses(t) == mounted /\ t.gen = mountGen /\ ~t.capIsProcessing

\* processFrame is entered and reaches the await of the model
IssuesCall(t) == FrameGuardPasses(t) /\ modelState = "loaded"

NewCall(t) ==
  [run |-> t.id, pos |-> currentTime, gen |-> t.gen,
   stale |-> FALSE]

\* the list the interval callback hands to onAnalysisComplete(video.id,
\* detections): the detections of the render startAnalysis was created in
CompletedWith(t) == t.capDetections

\* a tick that finds video_element.ended: clearInterval, setIsAnalyzing(false),
\* onStatusUpdate(completed), onAnalysisComplete(video.id, t.capDetections)
TickEnded(t) ==
  /\ t \in timers
  /\ Ended
  /\ timers' = timers \ {t}
  /\ isAnalyzing' = IF mounted /\ t.gen = mountGen THEN FALSE ELSE isAnalyzing
  /\ status' = "completed"
  /\ UNCHANGED <<fixed, error, callsIssued, mounted, mountGen, detections, analysisInterval,
                 isProcessing, progress, rendered, modelState, currentTime,
                 endedEventPending, nextTimer, calls, videoStatusProp, allDetections>>

\* a tick that samples: analyzeCurrentFrame(), then currentTime += 2
TickSample(t) ==
  /\ t \in timers
  /\ ~Ended
  /\ IssuesCall(t) => callsIssued < MaxCalls
  /\ IF IssuesCall(t)
       THEN /\ calls' = calls \cup {NewCall(t)}
            /\ callsIssued' = callsIssued + 1
            /\ isProcessing' = TRUE
            /\ error' = "none"
       ELSE UNCHANGED <<calls, callsIssued, isProcessing, error>>
  /\ currentTime' = Min(currentTime + SampleStep, duration)
  /\ endedEventPending' = (endedEventPending \/ currentTime' >= duration)
  /\ UNCHANGED <<fixed, mounted, mountGen, isAnalyzing, detections, analysisInterval,
                 progress, rendered, modelState, timers, nextTimer, status,
                 videoStatusProp, allDetections>>

\* ---- processFrame settles -----------------------------------------------

\* the instance that issued the call is still the rendered one
Live(c) == mounted /\ c.gen = mountGen

\* the Detection objects analyzeCurrentFrame builds from k filtered results
NewDetections(c, k) ==
  [i \in 1..k |->
     [run |-> c.run, pos |-> c.pos, idx |-> i,
      timeInVideo |-> IF Live(c) THEN currentTime ELSE 0]]

\* setDetections(prev => [...prev, detection]) for each result
AppendDetections(c, k) ==
  IF Live(c) THEN detections \o NewDetections(c, k) ELSE detections

\* Dashboard.handleDetection for each result
HandleDetection(c, k) == LastN(allDetections \o NewDetections(c, k), KeepLast)

\* the model returns k results that pass the confidence filter
ProcessFrameResolves(c, k) ==
  /\ c \in calls
  /\ calls' = calls \ {c}
  /\ isProcessing' = IF Live(c) THEN FALSE ELSE isProcessing
  /\ detections' = AppendDetections(c, k)
  /\ allDetections' = HandleDetection(c, k)
  /\ UNCHANGED <<fixed, error, callsIssued, mounted, mountGen, isAnalyzing, analysisInterval, progress,
                 rendered, modelState, currentTime, endedEventPending, timers, nextTimer, status,
                 videoStatusProp>>

\* mutant: a rejected call aborts the session
ProcessFrameRejects_Abort(c) ==
  /\ c \in calls
  /\ calls' = calls \ {c}
  /\ isProcessing' = IF mounted /\ c.gen = mountGen THEN FALSE ELSE isProcessing
  /\ error' = IF mounted /\ c.gen = mountGen THEN "frame" ELSE error
  /\ timers' = {}
  /\ status' = "error"
  /\ UNCHANGED <<fixed, callsIssued, mounted, mountGen, isAnalyzing, detections, analysisInterval,
                 progress, rendered, modelState, currentTime,
                 endedEventPending, nextTimer, videoStatusProp, allDetections>>

\* catch (err) { setError(errorMsg); throw err }
ErrorAfterReject(c) == IF Live(c) THEN "frame" ELSE error

\* the model call throws: processFrame rethrows, analyzeCurrentFrame logs
ProcessFrameRejects(c) ==
  /\ c \in calls
  /\ calls' = calls \ {c}
  /\ isProcessing' = IF Live(c) THEN FALSE ELSE isProcessing
  /\ error' = ErrorAfterReject(c)
  /\ UNCHANGED <<fixed, callsIssued, mounted, mountGen, isAnalyzing, detections, analysisInterval,
                 progress, rendered, modelState, currentTime,
                 endedEventPending, timers, nextTimer, status, videoStatusProp, allDetections>>

\* ---- stopAnalysis -------------------------------------------------------

\* mutant: stopAnalysis that leaves the interval running
TimersAfterStop_NoClear == timers

\* clearInterval(analysisInterval), analysisInterval as of the last render
TimersAfterStop ==
  IF rendered.analysisInterval # 0
    THEN {t \in timers : t.id # rendered.analysisInterval}
    ELSE timers

\* setAnalysisInterval(null) inside the same if
IntervalAfterStop ==
  IF rendered.analysisInterval # 0 THEN 0 ELSE analysisInterval

\* the body of stopAnalysis, whoever invokes it
StopBody ==
  /\ timers' = TimersAfterStop
  /\ analysisInterval' = IntervalAfterStop
  /\ isAnalyzing' = FALSE
  /\ status' = "ready"
  /\ calls' = MarkStale(calls)

\* the Stop Analysis button
stopAnalysis ==
  /\ mounted
  /\ rendered.isAnalyzing
  /\ StopBody
  /\ rendered' = Snapshot(FALSE, detections, IntervalAfterStop, isProcessing)
  /\ UNCHANGED <<fixed, error, callsIssued, mounted, mountGen, detections, isProcessing, progress,
                 modelState, currentTime, endedEventPending, nextTimer, videoStatusProp,
                 allDetections>>

\* ---- handleReset --------------------------------------------------------

\* mutant: handleReset that forgets setDetections([])
DetectionsAfterReset_Keep == detections

\* setDetections([]) of handleReset
DetectionsAfterReset == <<>>

handleReset ==
  /\ mounted
  /\ currentTime' = 0
  /\ progress' = 0
  /\ detections' = DetectionsAfterReset
  /\ IF rendered.isAnalyzing
       THEN /\ StopBody
                 ELSE /\ calls' = MarkStale(calls)
            /\ UNCHANGED <<timers, analysisInterval, isAnalyzing, status>>
  /\ rendered' = Snapshot(isAnalyzing', detections', analysisInterval',
                          isProcessing)
  /\ UNCHANGED <<fixed, error, callsIssued, mounted, mountGen, isProcessing, modelState,
                 endedEventPending, nextTimer, videoStatusProp,
                 allDetections>>

\* ---- media events of the video element ----------------------------------

\* the 'ended' listener registered by the effect of the last render
handleEnded ==
  /\ mounted
  /\ endedEventPending
  /\ endedEventPending' = FALSE
  /\ IF rendered.isAnalyzing
       THEN StopBody
       ELSE UNCHANGED <<timers, analysisInterval, isAnalyzing, status, calls>>
  /\ UNCHANGED <<fixed, error, callsIssued, mounted, mountGen, detections, isProcessing, progress,
                 rendered, modelState, currentTime,
                 nextTimer, videoStatusProp, allDetections>>

\* setProgress(duration ? (current / duration) * 100 : 0), in whole percent
ProgressOf(current) == IF duration # 0 THEN (current * 100) \div duration ELSE 0

\* a 'timeupdate' event is queued: the position moved since the last one
TimeUpdatePending == progress # ProgressOf(currentTime)

handleTimeUpdate ==
  /\ mounted
  /\ TimeUpdatePending
  /\ progress' = ProgressOf(currentTime)
  /\ UNCHANGED <<fixed, error, callsIssued, mounted, mountGen, isAnalyzing, detections, analysisInterval,
                 isProcessing, rendered, modelState, currentTime,
                 endedEventPending, timers, nextTimer, calls, status,
                 videoStatusProp, allDetections>>

\* ---- exportReport ---------------------------------------------------------

\* the report exportReport serialises from a detections list; run, pos and
\* idx stand for the type, confidence, dangerLevel and description the
\* detection was given when it was built
ReportOf(dets) ==
  [totalDetections |-> Len(dets),
   detections |-> [i \in DOMAIN dets |->
                    [timeInVideo |-> dets[i].timeInVideo,
                     result |-> <<dets[i].run, dets[i].pos, dets[i].idx>>]]]

\* ---- Dashboard: leaving and entering the analysis view ------------------

\* Back to Upload: setCurrentVideo(null) unmounts VideoAnalysis.  The
\* component has no cleanup for its interval: timers and calls live on.
\* The instance's state is discarded; the effect cleanup removes the media
\* listeners.
BackToUpload ==
  /\ mounted
  /\ mounted' = FALSE
  /\ isAnalyzing' = FALSE
  /\ detections' = <<>>
  /\ analysisInterval' = 0
  /\ isProcessing' = FALSE
  /\ progress' = 0
  /\ rendered' = Snapshot(FALSE, <<>>, 0, FALSE)
  /\ endedEventPending' = FALSE
  /\ error' = "none"
  /\ UNCHANGED <<fixed, callsIssued, mountGen, modelState, currentTime, timers, nextTimer, calls, status, videoStatusProp,
          allDetections>>

\* VideoUpload's Analyze button (shown for a video whose status is ready)
\* calls handleVideoSelect(video): a fresh VideoAnalysis with a fresh hook
\* and a fresh video element is mounted.
handleVideoSelect ==
  /\ ~mounted
  /\ status = "ready"
  /\ mountGen < MaxMounts
  /\ mounted' = TRUE
  /\ mountGen' = mountGen + 1
  /\ videoStatusProp' = status
  /\ modelState' = "loading"
  /\ currentTime' = 0
  /\ UNCHANGED <<fixed, error, callsIssued, isAnalyzing, detections, analysisInterval, isProcessing,
                 progress, rendered, endedEventPending,
                 timers, nextTimer, calls, status, allDetections>>

\* ---- specification ------------------------------------------------------

\* results that pass the filter: the frame shows nothing, or MaxDets objects
Outcomes == {0, MaxDets}

Next ==
  \/ InitializeModelLoaded
  \/ InitializeModelFailed
  \/ Render
  \/ startAnalysis
  \/ stopAnalysis
  \/ handleReset
  \/ handleEnded
  \/ handleTimeUpdate
  \/ BackToUpload
  \/ handleVideoSelect
  \/ \E t \in timers : TickEnded(t)
  \/ \E t \in timers : TickSample(t)
  \/ \E c \in calls : \E k \in Outcomes : ProcessFrameResolves(c, k)
  \/ \E c \in calls : ProcessFrameRejects(c)

Spec == Init /\ [][Next]_vars

\* the same program on a recording whose length is a whole number of steps
InitEven == ViewInit /\ duration = SampleStep * EvenSteps /\ probe = NoProbe

SpecEven == InitEven /\ [][Next]_vars

\* the view left to itself: the user starts one run and never stops, resets
\* or leaves; the browser fires the interval, renders, delivers the 'ended'
\* event and settles every call sooner or later
TimerFires == \E t \in timers : TickEnded(t) \/ TickSample(t)

CallSettles ==
  \/ \E c \in calls : \E k \in Outcomes : ProcessFrameResolves(c, k)
  \/ \E c \in calls : ProcessFrameRejects(c)

\* the one click on Start Analysis
startAnalysisOnce == nextTimer = 1 /\ startAnalysis

NextUnattended ==
  \/ InitializeModelLoaded
  \/ InitializeModelFailed
  \/ Render
  \/ startAnalysisOnce
  \/ handleEnded
  \/ handleTimeUpdate
  \/ \E t \in timers : TickEnded(t)
  \/ \E t \in timers : TickSample(t)
  \/ \E c \in calls : \E k \in Outcomes : ProcessFrameResolves(c, k)
  \/ \E c \in calls : ProcessFrameRejects(c)

SpecUnattended ==
  /\ Init
  /\ [][NextUnattended]_vars
  /\ WF_vars(TimerFires)
  /\ WF_vars(CallSettles)
  /\ WF_vars(Render)
  /\ WF_vars(handleEnded)

\* the same program, with startAnalysis also invoked without a video element
NextDetached == Next \/ startAnalysisDetached

SpecDetached == Init /\ [][NextDetached]_vars

\* ---- the classifier: getDangerLevel and getDescriptionForType ------------
\* Confidences are in hundredths: 0.6 is 60.

Kinds == {"person", "animal", "vehicle", "obstacle", "debris"}

\* type is a string: kinds the switch does not name
OtherKinds == {"bicycle", "train"}

Confidences == 0..MaxConfidence

\* mutant: getDangerLevel without the confidence floor
getDangerLevel_NoFloor(type, confidence) ==
  CASE type = "person" -> IF confidence > 80 THEN "critical" ELSE "high"
    [] type = "vehicle" -> "critical"
    [] type = "animal" -> IF confidence > 75 THEN "high" ELSE "medium"
    [] type = "debris" -> IF confidence > 70 THEN "medium" ELSE "low"
    [] type = "obstacle" -> IF confidence > 80 THEN "high" ELSE "medium"
    [] OTHER -> "medium"

\* VideoAnalysis.getDangerLevel
getDangerLevel(type, confidence) ==
  IF confidence < 60 THEN "low"
  ELSE CASE type = "person" -> IF confidence > 80 THEN "critical" ELSE "high"
         [] type = "vehicle" -> "critical"
         [] type = "animal" -> IF confidence > 75 THEN "high" ELSE "medium"
         [] type = "debris" -> IF confidence > 70 THEN "medium" ELSE "low"
         [] type = "obstacle" -> IF confidence > 80 THEN "high" ELSE "medium"
         [] OTHER -> "medium"

\* mutant: the live analyzer's copy with inclusive thresholds
VideoFeed_getDangerLevel_Inclusive(type, confidence) ==
  IF confidence < 60 THEN "low"
  ELSE CASE type = "person" -> IF confidence >= 80 THEN "critical" ELSE "high"
         [] type = "vehicle" -> "critical"
         [] type = "animal" -> IF confidence >= 75 THEN "high" ELSE "medium"
         [] type = "debris" -> IF confidence >= 70 THEN "medium" ELSE "low"
         [] type = "obstacle" -> IF confidence >= 80 THEN "high" ELSE "medium"
         [] OTHER -> "medium"

\* VideoFeed.getDangerLevel, the live analyzer's copy
VideoFeed_getDangerLevel(type, confidence) ==
  IF confidence < 60 THEN "low"
  ELSE CASE type = "person" -> IF confidence > 80 THEN "critical" ELSE "high"
         [] type = "vehicle" -> "critical"
         [] type = "animal" -> IF confidence > 75 THEN "high" ELSE "medium"
         [] type = "debris" -> IF confidence > 70 THEN "medium" ELSE "low"
         [] type = "obstacle" -> IF confidence > 80 THEN "high" ELSE "medium"
         [] OTHER -> "medium"

\* VideoAnalysis.getDescriptionForType: the descriptions record
descriptions ==
  [person |-> {"Person detected on tracks", "Human presence detected", "Pedestrian in danger zone"},
   animal |-> {"Animal on railway tracks", "Wildlife detected", "Animal obstruction"},
   vehicle |-> {"Vehicle on tracks", "Unauthorized vehicle", "Emergency vehicle"},
   obstacle |-> {"Unknown object detected", "Potential obstruction", "Foreign object"},
   debris |-> {"Debris on tracks", "Scattered objects", "Track obstruction"}]

\* VideoFeed.getDescriptionForType: the descriptions record
VideoFeed_descriptions ==
  [person |-> {"Person detected on tracks", "Human presence detected", "Pedestrian crossing"},
   animal |-> {"Animal on railway tracks", "Wildlife detected", "Stray animal present"},
   vehicle |-> {"Vehicle on tracks", "Unauthorized vehicle", "Emergency vehicle"},
   obstacle |-> {"Unknown object detected", "Potential obstruction", "Foreign object"},
   debris |-> {"Debris on tracks", "Scattered objects", "Track obstruction"}]

\* mutant: an unlisted type falls back to the debris phrases
getDescriptionForType_Debris(type) ==
  IF type \in DOMAIN descriptions THEN descriptions[type] ELSE descriptions.debris

\* descriptions[type] || descriptions.obstacle; the phrases Math.random picks among
getDescriptionForType(type) ==
  IF type \in DOMAIN descriptions THEN descriptions[type] ELSE descriptions.obstacle

VideoFeed_getDescriptionForType(type) ==
  IF type \in DOMAIN VideoFeed_descriptions
    THEN VideoFeed_descriptions[type]
    ELSE VideoFeed_descriptions.obstacle

\* a result of some type and confidence reaches the two components
InitClassify ==
  /\ PipelineInit
  /\ probe \in [stage : {"input"}, type : Kinds \cup OtherKinds, confidence : Confidences]

\* the Detection both components build from it
Classify ==
  /\ probe.stage = "input"
  /\ \E d \in getDescriptionForType(probe.type) :
       \E f \in VideoFeed_getDescriptionForType(probe.type) :
         probe' = [stage |-> "classified",
                   type |-> probe.type,
                   confidence |-> probe.confidence,
                   dangerLevel |-> getDangerLevel(probe.type, probe.confidence),
                   description |-> d,
                   feedDangerLevel |-> VideoFeed_getDangerLevel(probe.type, probe.confidence),
                   feedDescription |-> f]
  /\ UNCHANGED pipeline

NextClassify == Classify

SpecClassify == InitClassify /\ [][NextClassify]_vars

Classified == probe.stage = "classified"

\* ---- useYOLOv8Detection: processFrame on the model's results -------------

\* classMapping: Record<number, string>
classMapping ==
  [c \in {0, 1, 2, 3, 5, 7} \cup (15..23) |->
     CASE c = 0 -> "person"
       [] c = 1 -> "animal"
       [] c \in {2, 3, 5, 7} -> "vehicle"
       [] OTHER -> "animal"]

\* classMapping[classId] || 'obstacle'
getDetectionType(classId) ==
  IF classId \in DOMAIN classMapping THEN classMapping[classId] ELSE "obstacle"

\* result.class_id || 0 : a result may come without class_id
ClassIdOf(result) ==
  IF "class_id" \in DOMAIN result /\ result.class_id # 0 THEN result.class_id ELSE 0

\* `det-${Date.now()}-${index}`
DetectionId(now, index) == <<now, index>>

\* results.map((result, index) => ({id, type, confidence, ...}))
ProcessedDetections(results, now) ==
  [i \in 1..Len(results) |->
     [id |-> DetectionId(now, i - 1),
      type |-> getDetectionType(ClassIdOf(results[i])),
      confidence |-> results[i].score]]

\* mutant: a filter that lets every result through
PassesThreshold_All(det) == TRUE

\* det => det.confidence > 0.5
PassesThreshold(det) == det.confidence > 50

\* processedDetections.filter(...)
FilteredDetections(processed) == SelectSeq(processed, PassesThreshold)

\* what the model can return for one object: a score around the filter's
\* threshold or at the classifier's floor, and a class id, or none
RawScores == {49, 50, 51, 60}

RawClassIds == {0, 1, 2, 99}

RawResults ==
  [score : RawScores, class_id : RawClassIds] \cup [score : RawScores]

\* sequences over S of length 0..n
SeqsUpTo(S, n) == UNION {[1..k -> S] : k \in 0..n}

RawArrays == SeqsUpTo(RawResults, MaxResults)

\* the model has returned an array for a frame
InitFrame ==
  /\ PipelineInit
  /\ probe \in [stage : {"results"}, now : 0..MaxNow, results : RawArrays]

\* processFrame maps and filters the array and returns it
ProcessFrameReturns ==
  /\ probe.stage = "results"
  /\ probe' = [stage |-> "returned",
               now |-> probe.now,
               results |-> probe.results,
               returned |-> FilteredDetections(ProcessedDetections(probe.results, probe.now))]
  /\ UNCHANGED pipeline

NextFrame == ProcessFrameReturns

SpecFrame == InitFrame /\ [][NextFrame]_vars

Returned == probe.stage = "returned"

\* ---- the ids of a session's detections -----------------------------------

\* the arrays of a session: persons, scored below or above the threshold
SessionArrays == SeqsUpTo([score : {49, 51}, class_id : {0}], MaxResults)

InitSession ==
  /\ PipelineInit
  /\ probe = [stage |-> "session", now |-> 0, frames |-> 0, detections |-> <<>>]

\* the clock moves to the next millisecond
DateNowAdvances ==
  /\ probe.stage = "session"
  /\ probe.now < MaxNow
  /\ probe' = [probe EXCEPT !.now = probe.now + 1]
  /\ UNCHANGED pipeline

\* a processFrame call settles with an array and analyzeCurrentFrame appends
\* one Detection per returned result, keeping its id
ProcessFrameSettles(results) ==
  /\ probe.stage = "session"
  /\ probe.frames < MaxFrames
  /\ probe' = [probe EXCEPT
                 !.frames = probe.frames + 1,
                 !.detections = probe.detections \o
                    FilteredDetections(ProcessedDetections(results, probe.now))]
  /\ UNCHANGED pipeline

NextSession ==
  \/ DateNowAdvances
  \/ \E results \in SessionArrays : ProcessFrameSettles(results)

SpecSession == InitSession /\ [][NextSession]_vars

\* ---- Dashboard: the aggregated list and its display ----------------------
\* A detection is its danger level, where it came from and its timestamp
\* (new Date() when it was built), taken to be its arrival number.

DangerLevels == {"low", "medium", "high", "critical"}

\* const dangerOrder = { critical: 4, high: 3, medium: 2, low: 1 }
dangerOrder == [critical |-> 4, high |-> 3, medium |-> 2, low |-> 1]

\* the comparator of ObstacleDetection's sort puts a before b
SortsBefore(a, b) ==
  IF dangerOrder[a.dangerLevel] # dangerOrder[b.dangerLevel]
    THEN dangerOrder[a.dangerLevel] > dangerOrder[b.dangerLevel]
    ELSE a.timestamp > b.timestamp

RECURSIVE SortedFrom(_)
SortedFrom(S) ==
  IF S = {} THEN <<>>
  ELSE LET first == CHOOSE x \in S : \A y \in S \ {x} : SortsBefore(x, y)
       IN  <<first>> \o SortedFrom(S \ {first})

\* detections.sort(comparator): the array of the prop, sorted in place
sortedDetections(dets) == SortedFrom({dets[i] : i \in DOMAIN dets})

InitDashboard ==
  /\ PipelineInit
  /\ probe = [stage |-> "dashboard", allDetections |-> <<>>, arrivals |-> 0]

ArrivingDetection(level, from) ==
  [timestamp |-> probe.arrivals + 1, dangerLevel |-> level, from |-> from]

\* setAllDetections(prev => [...prev, detection].slice(-20))
AppendToAll(detection) ==
  /\ probe.stage = "dashboard"
  /\ probe.arrivals < MaxArrivals
  /\ probe' = [probe EXCEPT
                 !.arrivals = probe.arrivals + 1,
                 !.allDetections = LastN(probe.allDetections \o <<detection>>, KeepLast)]
  /\ UNCHANGED pipeline

\* handleDetection, called by the analysis view for a detection
DashboardHandleDetection(level) == AppendToAll(ArrivingDetection(level, "video"))

\* the background simulation's interval appends a simulated detection
SimulatedDetection(level) == AppendToAll(ArrivingDetection(level, "simulated"))

\* the Dashboard renders <ObstacleDetection detections={allDetections} />,
\* whose body sorts that array
ObstacleDetectionRenders ==
  /\ probe.stage = "dashboard"
  /\ probe' = [probe EXCEPT !.allDetections = sortedDetections(probe.allDetections)]
  /\ UNCHANGED pipeline

NextDashboard ==
  \/ \E level \in DangerLevels : DashboardHandleDetection(level)
  \/ \E level \in DangerLevels : SimulatedDetection(level)
  \/ ObstacleDetectionRenders

SpecDashboard == InitDashboard /\ [][NextDashboard]_vars

\* ---- sanity of the modelling --------------------------------------------

TypeOK ==
  /\ mounted \in BOOLEAN
  /\ mountGen \in 1..MaxMounts
  /\ isAnalyzing \in BOOLEAN
  /\ analysisInterval \in 0..MaxRuns
  /\ isProcessing \in BOOLEAN
  /\ progress \in 0..100
  /\ modelState \in {"loading", "loaded", "failed"}
  /\ currentTime \in 0..duration
  /\ error \in {"none", "init", "frame"}
  /\ status \in {"ready", "analyzing", "completed", "error"}
  /\ videoStatusProp \in {"ready", "analyzing", "completed", "error"}
  /\ Len(allDetections) <= KeepLast

\* every timer was created by the instance now rendered or last rendered, so
\* the one currentTime variable is the position of the element it closes over
TimersOfOneElement == \A t \in timers : t.gen = mountGen

\* ---- claims -------------------------------------------------------------

\* a step that runs the body of stopAnalysis
StopInvoked ==
  \/ stopAnalysis
  \/ handleReset /\ rendered.isAnalyzing
  \/ handleEnded /\ rendered.isAnalyzing

\* a step taken by the user's Stop or Reset button
ManualStopStep == stopAnalysis \/ handleReset

\* the run the session is in
CurrentRun == nextTimer - 1

\* new extends old at its end
IsAppend(old, new) ==
  /\ Len(new) > Len(old)
  /\ SubSeq(new, 1, Len(old)) = old

\* C1: single-flight - at most one processFrame call is outstanding for the
\* video at any instant, so a tick that fires while a call is outstanding
\* issues no new call.
C1_SingleFlight == Cardinality(calls) <= 1

\* C2: stale results are dropped - a call that was outstanding when
\* stopAnalysis, handleReset or a new startAnalysis happened appends no
\* detection and sends no onDetection when it resolves.
C2_StaleResultsDropped ==
  [][\A c \in calls : \A k \in Outcomes :
       (c.stale /\ ProcessFrameResolves(c, k))
         => (detections' = detections /\ allDetections' = allDetections)]_vars

\* C3: stopAnalysis invoked while the session is analyzing reports ready and
\* cancels the sampling timer; while the status stays ready (until the next
\* startAnalysis) no timer is active, so no tick fires, no call is issued and
\* the scheduler does not move the playback position.
C3_StopCancelsTimer ==
  /\ [](status = "ready" => timers = {})
  /\ [][(status = "analyzing" /\ StopInvoked)
          => (status' = "ready" /\ timers' = {})]_vars

\* C3 witness: one run was started, sampled one frame (position 2) and was
\* stopped by the Stop button before the source ended.
C3_Witness ==
  /\ mounted /\ status = "ready" /\ nextTimer = 2
  /\ currentTime = SampleStep /\ ~endedEventPending /\ timers = {}

\* C4: startAnalysis leaves status analyzing with no detections, and while
\* the new run is analyzing the list holds only detections of frames sampled
\* in that run.
C4_NoPriorRunDetections ==
  /\ []((mounted /\ status = "analyzing")
          => \A i \in DOMAIN detections : detections[i].run = CurrentRun)
  /\ [][startAnalysis => (status' = "analyzing" /\ detections' = <<>>)]_vars

\* C5: when the source has ended during an analyzing run, any change of the
\* status that is not a manual stop or reset reports completed, with the
\* sampling loop stopped and (once the position has been reported) progress
\* at 100.
C5_EndedMeansCompleted ==
  [][(mounted /\ status = "analyzing" /\ Ended /\ status' # status
        /\ ~ManualStopStep)
       => (/\ status' = "completed"
           /\ timers' = {}
           /\ (progress' = ProgressOf(currentTime') => progress' = 100))]_vars

\* C6 as stated: whenever the status is ready the detections list is empty.
C6_ReadyImpliesEmpty == status = "ready" => detections = <<>>

\* C6 as amended: the detections list is empty while no analysis has been
\* started, and startAnalysis and handleReset each leave it empty
\* (stopAnalysis and the 'ended' handler report ready and keep the list).
C6_EmptyWhenFresh ==
  /\ [](nextTimer = 1 => detections = <<>>)
  /\ [][(startAnalysis \/ handleReset) => detections' = <<>>]_vars

\* C6 witness: in the first mounted instance one run produced a detection,
\* the run was stopped, and the list is empty again, which only handleReset
\* can have done.
C6_Witness ==
  /\ mounted /\ mountGen = 1 /\ nextTimer = 2 /\ status = "ready"
  /\ allDetections # <<>> /\ detections = <<>>

\* C7: the detections list of the mounted session changes only while the
\* status is analyzing and only by appending; apart from a new
\* startAnalysis nothing changes it once the status is completed or error.
C7_AppendOnlyWhileAnalyzing ==
  [][(mounted /\ mounted' /\ detections' # detections /\ ~startAnalysis)
       => (status = "analyzing" /\ IsAppend(detections, detections'))]_vars

\* C8: within one run detections appear in the order their frames were
\* sampled: an earlier entry of the list was not sampled at a later position.
C8_SampledOrder ==
  \A i, j \in DOMAIN detections :
    (i < j /\ detections[i].run = detections[j].run)
      => detections[i].pos <= detections[j].pos

\* the transitions of the session state machine
AllowedTransitions ==
  {<<"ready", "analyzing">>, <<"analyzing", "completed">>,
   <<"analyzing", "ready">>, <<"analyzing", "error">>,
   <<"completed", "analyzing">>, <<"error", "analyzing">>}

\* C9: every change of the reported status is a transition of the state
\* machine, and a restart from a terminal status starts with no detections.
C9_OnlyAllowedTransitions ==
  [][status' # status
       => (/\ <<status, status'>> \in AllowedTransitions
           /\ (status \in {"completed", "error"} => detections' = <<>>))]_vars

\* C10: with the inference model failed to initialise, a sampling tick of a
\* started analysis leaves the session in status error with no timer
\* scheduled any more.
C10_AdapterUnavailableIsFatal ==
  [][(modelState = "failed" /\ \E t \in timers : TickSample(t))
       => (status' = "error" /\ timers' = {})]_vars

\* C11: a processFrame call that fails while the run is analyzing changes
\* nothing but the hook's isProcessing and error: the status, the session's
\* and the Dashboard's detections, the playback position and the timers are
\* as before, so the timer goes on ticking.  Every sampling tick moves the
\* position strictly forward and the position never goes back while the
\* timer stays, so the position of the failed frame is not sampled again.
C11_FailureSwallowed ==
  [][/\ \A c \in calls : ProcessFrameRejects(c) =>
          /\ status' = status
          /\ detections' = detections
          /\ allDetections' = allDetections
          /\ timers' = timers
          /\ currentTime' = currentTime
          /\ calls' = calls \ {c}
     /\ \A t \in timers : TickSample(t) => currentTime' > currentTime
     /\ (timers # {} /\ timers' = timers) => currentTime' >= currentTime]_vars

\* a call of the running session failed and the next tick will sample
C11_Witness ==
  /\ mounted /\ status = "analyzing" /\ error = "frame"
  /\ timers # {} /\ calls = {} /\ detections = <<>> /\ ~Ended

C13_NoSourceRejected ==
  [][startAnalysisDetached =>
       /\ timers' = timers
       /\ status' = status
       /\ detections' = detections
       /\ isAnalyzing' = isAnalyzing
       /\ nextTimer' = nextTimer
       /\ analysisInterval' = analysisInterval]_vars

\* no video element, status ready, and a start would still be explored
C13_Witness ==
  /\ ~mounted /\ status = "ready" /\ timers = {} /\ nextTimer <= MaxRuns
  /\ ENABLED startAnalysisDetached

\* C14: below confidence 0.6 the danger level is low for every kind, named
\* by the switch or not, in both copies of getDangerLevel.
C14_FloorFirst ==
  (Classified /\ probe.confidence < 60) =>
     (probe.dangerLevel = "low" /\ probe.feedDangerLevel = "low")

\* a vehicle, critical at any confidence from 0.6 on, just below the floor
C14_Witness ==
  /\ Classified /\ probe.type = "vehicle" /\ probe.confidence = 59
  /\ probe.dangerLevel = "low"

\* the reference table: the level above the strict threshold and the level
\* at or below it, per kind
ReferenceTable ==
  [person |-> [above |-> 80, hi |-> "critical", lo |-> "high"],
   vehicle |-> [above |-> 0, hi |-> "critical", lo |-> "critical"],
   animal |-> [above |-> 75, hi |-> "high", lo |-> "medium"],
   debris |-> [above |-> 70, hi |-> "medium", lo |-> "low"],
   obstacle |-> [above |-> 80, hi |-> "high", lo |-> "medium"]]

ReferenceLevel(type, confidence) ==
  IF confidence > ReferenceTable[type].above
    THEN ReferenceTable[type].hi
    ELSE ReferenceTable[type].lo

\* C15: from confidence 0.6 on the danger level of the five kinds is the one
\* of the reference table, with strict thresholds, and the two copies of
\* getDangerLevel agree on every input.
C15_ReferenceTable ==
  Classified =>
     /\ probe.feedDangerLevel = probe.dangerLevel
     /\ (probe.confidence >= 60 /\ probe.type \in Kinds) =>
           probe.dangerLevel = ReferenceLevel(probe.type, probe.confidence)

\* a person at exactly 0.8 takes the lower level
C15_Witness ==
  /\ Classified /\ probe.type = "person" /\ probe.confidence = 80
  /\ probe.dangerLevel = "high" /\ probe.feedDangerLevel = "high"

\* C16 as stated: a type the switch does not name gets the danger level of
\* obstacle at the same confidence and a phrase of the obstacle set.
C16_UnknownAsObstacle ==
  (Classified /\ probe.type \notin Kinds) =>
     /\ probe.dangerLevel = getDangerLevel("obstacle", probe.confidence)
     /\ probe.description \in descriptions.obstacle

\* C16 amended: a type the switch does not name gets a phrase of the
\* obstacle set in both components, and the danger level low below 0.6 and
\* medium from 0.6 on, which is obstacle's level up to confidence 0.8.
C16_UnknownIsMedium ==
  (Classified /\ probe.type \notin Kinds) =>
     /\ probe.description \in descriptions.obstacle
     /\ probe.feedDescription \in VideoFeed_descriptions.obstacle
     /\ probe.dangerLevel = IF probe.confidence < 60 THEN "low" ELSE "medium"
     /\ probe.confidence <= 80 =>
          probe.dangerLevel = getDangerLevel("obstacle", probe.confidence)

\* an unlisted type above 0.8, where obstacle would be high
C16_Witness ==
  /\ Classified /\ probe.type = "bicycle" /\ probe.confidence = 90
  /\ probe.dangerLevel = "medium" /\ probe.description = "Foreign object"

\* the result at index i of the array has been passed on
Kept(i) == \E j \in DOMAIN probe.returned : probe.returned[j].id = DetectionId(probe.now, i - 1)

\* C17 as stated: processFrame returns a result if and only if its
\* confidence is at least 0.5, so a result at exactly 0.5 is returned.
C17_KeptIffAtLeastHalf ==
  Returned => \A i \in DOMAIN probe.results : Kept(i) <=> probe.results[i].score >= 50

\* C17 amended: processFrame returns a result if and only if its confidence
\* is above 0.5, in the order of the array; a result at exactly 0.5 is
\* discarded like those below.
C17_KeptIffAboveHalf ==
  Returned =>
    /\ \A i \in DOMAIN probe.results : Kept(i) <=> probe.results[i].score > 50
    /\ \A j \in DOMAIN probe.returned : probe.returned[j].confidence > 50
    /\ \A j, k \in DOMAIN probe.returned :
          j < k => probe.returned[j].id[2] < probe.returned[k].id[2]

\* an array with a result at exactly 0.5 before one above it: only the
\* second is returned
C17_Witness ==
  /\ Returned /\ Len(probe.results) = 2
  /\ probe.results[1].score = 50 /\ probe.results[2].score = 51
  /\ Len(probe.returned) = 1 /\ probe.returned[1].id = DetectionId(probe.now, 1)

\* C20: the detections of a session have pairwise distinct ids, also when
\* two processFrame calls read the same Date.now().
C20_DistinctIds ==
  probe.stage = "session" =>
    \A i, j \in DOMAIN probe.detections :
       i # j => probe.detections[i].id # probe.detections[j].id

\* C18: while the session stays completed the report exportReport produces
\* from the session's detections is the same after every event other than a
\* reset, so two exports give the same detection array; totalDetections is
\* the length of that array.
C18_ExportIdempotent ==
  /\ [](ReportOf(detections).totalDetections = Len(ReportOf(detections).detections))
  /\ [][(mounted /\ mounted' /\ status = "completed" /\ status' = "completed"
           /\ detections # <<>> /\ ~handleReset)
          => ReportOf(detections)' = ReportOf(detections)]_vars

\* C19: on a recording of a whole number of steps every sampling tick finds
\* the position at a multiple of the step and moves it on by one step, the
\* ticks of the first run issue a call for the position they find whenever
\* the model is loaded, and the run, unless stopped or reset by the user,
\* leaves analyzing for completed at the end of the recording, 100%.
C19_EvenDurationRun ==
  [][/\ \A t \in timers : TickSample(t) =>
          /\ currentTime % SampleStep = 0
          /\ currentTime' = currentTime + SampleStep
          /\ (t.id = 1 /\ mounted /\ modelState = "loaded") =>
                (NewCall(t) \in calls' /\ callsIssued' = callsIssued + 1)
     /\ (nextTimer = 2 /\ mountGen = 1) => callsIssued' <= duration \div SampleStep
     /\ (mounted /\ status = "analyzing" /\ Ended /\ status' # status /\ ~ManualStopStep)
           => (status' = "completed" /\ ProgressOf(currentTime') = 100)]_vars

\* C21: when a tick of the rendered view finds the recording ended, the
\* list it passes to onAnalysisComplete is the session's detections list at
\* that moment.
C21_CompleteListIsSessionList ==
  [][\A t \in timers :
       (TickEnded(t) /\ mounted /\ t.gen = mountGen) => CompletedWith(t) = detections]_vars

\* C22: a tick whose analyzeCurrentFrame returns at its guard (the captured
\* isProcessing is true, or the view's video and canvas are gone) leaves the
\* playback position where it was.
C22_SkippedTickKeepsPosition ==
  [][\A t \in timers :
       (TickSample(t) /\ ~FrameGuardPasses(t)) => currentTime' = currentTime]_vars

\* C24: the timeInVideo of every detection of the session is the position
\* at which its frame was sampled.
C24_TimeInVideoIsCapturePosition ==
  mounted => \A i \in DOMAIN detections : detections[i].timeInVideo = detections[i].pos

\* C26: the hook's isProcessing is true exactly while a processFrame call of
\* the rendered view is awaiting the model.
C26_ProcessingIffOutstanding ==
  mounted => (isProcessing <=> \E c \in calls : c.gen = mountGen)

\* C27: once the analysis view is unmounted no sampling timer is active.
C27_NoTimerAfterUnmount == ~mounted => timers = {}

\* C29: the status in the video prop of the analysis view is the status the
\* Dashboard stores for the video.
C29_PropAgreesWithRecord == mounted => videoStatusProp = status

\* C23: with the timer firing fairly and no stop, reset or unmount, the
\* first run started on the recording eventually reaches completed with no
\* timer left.
C23_RunCompletes ==
  (status = "analyzing" /\ nextTimer = 2)
     ~> (status = "completed" /\ nextTimer = 2 /\ timers = {})

\* the raw result a returned detection was made from
RawOf(j) == probe.results[probe.returned[j].id[2] + 1]

\* C25: a returned detection whose raw result has no class id, or a class
\* id that is not a key of classMapping, is of type obstacle; person, animal
\* and vehicle come only from class ids in the table.
C25_UnmappedIsObstacle ==
  Returned =>
    \A j \in DOMAIN probe.returned :
       ("class_id" \notin DOMAIN RawOf(j) \/ RawOf(j).class_id \notin DOMAIN classMapping)
          <=> probe.returned[j].type = "obstacle"

\* C30: a returned detection made from class id 1 (bicycle) is of type
\* vehicle, and from confidence 0.6 on its danger level is critical.
C30_BicycleIsVehicle ==
  Returned =>
    \A j \in DOMAIN probe.returned :
       ("class_id" \in DOMAIN RawOf(j) /\ RawOf(j).class_id = 1) =>
          /\ probe.returned[j].type = "vehicle"
          /\ probe.returned[j].confidence >= 60 =>
               getDangerLevel(probe.returned[j].type, probe.returned[j].confidence) = "critical"

\* C28: the Dashboard's aggregated list holds exactly the last detections
\* that arrived, at most 20, in the order they arrived.
C28_LastArrivalsInOrder ==
  probe.stage = "dashboard" =>
    /\ Len(probe.allDetections) = Min(probe.arrivals, KeepLast)
    /\ \A i \in DOMAIN probe.allDetections :
         probe.allDetections[i].timestamp = probe.arrivals - Len(probe.allDetections) + i

====
